---- MODULE Spec2Model ----
(***************************************************************************)
(* A model of two components of matchms:                                   *)
(*   - SpectrumProcessor (matchms/filtering/SpectrumProcessor.py): the     *)
(*     filter pipeline, its construction from a preset, add_filter and     *)
(*     process_spectrum;                                                   *)
(*   - CosineHungarian (matchms/similarity/CosineHungarian.py): the peak   *)
(*     matcher find_pairs_numba and the assignment based cosine score.     *)
(* Spec is the specification of the pipeline, ScoreSpec that of the scorer.*)
(* Python indices are 0-based; sequences here are 1-based.                 *)
(***************************************************************************)
EXTENDS Integers, Sequences, FiniteSets, Bags, TLC

VARIABLES
    filters,        \* SpectrumProcessor.filters: list of filter objects
    added,          \* history: bag of the function names appended by bare add_filter calls
    outcome,        \* how the last add_filter call ended: "self" or the exception raised
    ncalls,         \* number of add_filter calls made after construction
    last_spec,      \* the filter_spec of the last add_filter call
    pc,             \* position of process_spectrum: "idle", "loop", "return"
    idx,            \* process_spectrum: index of the next filter of the for loop
    spectrum,       \* process_spectrum: the local variable spectrum
    invoked,        \* history: the list positions of the filters invoked, in call order
    returned,       \* history: what each invoked filter returned
    result,         \* what process_spectrum returned last
    spectrum1,      \* CosineHungarian.__call__: argument spectrum1 (peaks <<mz, intensity>>)
    spectrum2,      \* CosineHungarian.__call__: argument spectrum2
    tolerance,      \* CosineHungarian.tolerance
    matching_pairs, \* the sorted list of candidate pairs of the last call
    used_matches,   \* the assignment mapped back to peak indices
    score,          \* the returned score as a fraction [num, den]; den = 0 stands for nan
    n_matches,      \* the returned number of matches
    spc,            \* position of the scorer: "idle", "ready", "returned", "raised"
    previous        \* the result of the call made before the arguments were swapped

pvars == <<filters, added, outcome, ncalls, last_spec, pc, idx, spectrum, invoked, returned, result>>
svars == <<spectrum1, spectrum2, tolerance, matching_pairs, used_matches, score, n_matches, spc, previous>>
vars == <<pvars, svars>>

(***************************************************************************)
(* Bounds of the model.                                                    *)
(***************************************************************************)
MaxAdds == 2
\* ScoreSpec: spectra of at most MaxPeaks peaks at positions 0..MaxMz, with graded
\* intensities; tolerances 0..MaxTol.
MaxPeaks == 2
MaxMz == 2
MaxTol == 1
\* FlatScoreSpec: longer spectra, every peak at full intensity.
MaxFlatPeaks == 3
MaxFlatMz == 4

(***************************************************************************)
(* SpectrumProcessor.py: the module level tables.                          *)
(***************************************************************************)
ALL_FILTERS ==
    << "make_charge_int",
       "add_compound_name",
       "derive_adduct_from_name",
       "derive_formula_from_name",
       "clean_compound_name",
       "interpret_pepmass",
       "add_precursor_mz",
       "add_retention_index",
       "add_retention_time",
       "derive_ionmode",
       "correct_charge",
       "derive_adduct_from_name",
       "derive_formula_from_name",
       "require_precursor_mz",
       "add_parent_mass",
       "harmonize_undefined_inchikey",
       "harmonize_undefined_inchi",
       "harmonize_undefined_smiles",
       "repair_inchi_inchikey_smiles",
       "repair_parent_mass_match_smiles_wrapper",
       "require_correct_ionmode",
       "require_precursor_below_mz",
       "require_parent_mass_match_smiles",
       "require_valid_annotation",
       "normalize_intensities",
       "select_by_intensity",
       "select_by_mz",
       "select_by_relative_intensity",
       "remove_peaks_around_precursor_mz",
       "remove_peaks_outside_top_k",
       "require_minimum_number_of_peaks",
       "require_minimum_of_high_peaks",
       "add_fingerprint",
       "add_losses" >>

\* The keys of the dict {x.__name__: x for x in ALL_FILTERS}; a function object is
\* identified by its name.
FILTER_FUNCTIONS == { ALL_FILTERS[p] : p \in 1..Len(ALL_FILTERS) }

MINIMAL_FILTERS ==
    << "make_charge_int", "interpret_pepmass", "derive_ionmode", "correct_charge" >>

BASIC_FILTERS ==
    MINIMAL_FILTERS \o
    << "derive_adduct_from_name", "derive_formula_from_name", "clean_compound_name",
       "interpret_pepmass", "add_precursor_mz" >>

DEFAULT_FILTERS ==
    BASIC_FILTERS \o
    << "require_precursor_mz", "add_parent_mass", "harmonize_undefined_inchikey",
       "harmonize_undefined_inchi", "harmonize_undefined_smiles",
       "repair_inchi_inchikey_smiles", "repair_parent_mass_match_smiles_wrapper",
       "require_correct_ionmode", "normalize_intensities" >>

FULLY_ANNOTATED_PROCESSING ==
    DEFAULT_FILTERS \o
    << "require_parent_mass_match_smiles", "require_valid_annotation" >>

PREDEFINED_PIPELINES ==
    [ minimal |-> MINIMAL_FILTERS,
      basic |-> BASIC_FILTERS,
      default |-> DEFAULT_FILTERS,
      fully_annotated |-> FULLY_ANNOTATED_PROCESSING ]

(***************************************************************************)
(* Filter objects.  A bare name appends the function itself; a tuple       *)
(* appends a fresh lambda that closes over the function and its arguments. *)
(***************************************************************************)
Func(name) == [kind |-> "function", name |-> name, args |-> "none"]
Lambda(name, args) == [kind |-> "lambda", name |-> name, args |-> args]

\* ALL_FILTERS.index(f): the position of the first element equal to f.  A lambda
\* is equal to no element of ALL_FILTERS: index raises ValueError (InList is FALSE).
InList(f) == f.kind = "function" /\ f.name \in FILTER_FUNCTIONS

Index(f) ==
    CHOOSE p \in 1..Len(ALL_FILTERS) :
        /\ ALL_FILTERS[p] = f.name
        /\ \A q \in 1..Len(ALL_FILTERS) : ALL_FILTERS[q] = f.name => p <= q

\* list.sort is stable: an element goes after every element whose key is not greater.
RECURSIVE InsertByKey(_, _)
InsertByKey(sorted, f) ==
    IF sorted = <<>> THEN <<f>>
    ELSE IF Index(f) < Index(Head(sorted)) THEN <<f>> \o sorted
    ELSE <<Head(sorted)>> \o InsertByKey(Tail(sorted), f)

RECURSIVE StableSort(_)
StableSort(fs) ==
    IF fs = <<>> THEN <<>>
    ELSE InsertByKey(StableSort(SubSeq(fs, 1, Len(fs) - 1)), fs[Len(fs)])

SortUnsorted(fs) == fs

\* self.filters.sort(key=lambda f: ALL_FILTERS.index(f)), when no key raises.
SortFilters(fs) == StableSort(fs)

\* The keys are computed before anything is moved: when one raises, the list is
\* left as it was before the sort.
SortRaises(fs) == \E p \in 1..Len(fs) : ~InList(fs[p])

(***************************************************************************)
(* add_filter as a function of the list: the new list and how the call     *)
(* ends.  A filter_spec is a record: type "str" (name), "tuple" (name,     *)
(* args) or "other" (any other type).                                      *)
(***************************************************************************)
AddFilter(fs, filter_spec) ==
    IF filter_spec.type = "str" THEN
        IF filter_spec.name \notin FILTER_FUNCTIONS
        THEN [filters |-> fs, outcome |-> "KeyError"]
        ELSE LET app == Append(fs, Func(filter_spec.name))
             IN  IF SortRaises(app)
                 THEN [filters |-> app, outcome |-> "ValueError"]
                 ELSE [filters |-> SortFilters(app), outcome |-> "self"]
    ELSE IF filter_spec.type = "tuple" THEN
        IF filter_spec.name \notin FILTER_FUNCTIONS
        THEN [filters |-> fs, outcome |-> "KeyError"]
        ELSE LET app == Append(fs, Lambda(filter_spec.name, filter_spec.args))
             IN  IF SortRaises(app)
                 THEN [filters |-> app, outcome |-> "ValueError"]
                 ELSE [filters |-> SortFilters(app), outcome |-> "self"]
    ELSE [filters |-> fs, outcome |-> "TypeError"]

\* __init__: self.filters = [] and one add_filter per name of the preset.
RECURSIVE Construct(_)
Construct(names) ==
    IF names = <<>> THEN <<>>
    ELSE AddFilter(Construct(SubSeq(names, 1, Len(names) - 1)),
                   [type |-> "str", name |-> names[Len(names)], args |-> "none"]).filters

RECURSIVE SeqToBag(_)
SeqToBag(names) ==
    IF names = <<>> THEN EmptyBag
    ELSE SeqToBag(Tail(names)) (+) SetToBag({Head(names)})

\* The filter_spec values the model passes to add_filter.
FilterSpecs ==
    { [type |-> "str", name |-> n, args |-> "none"] :
        n \in { "make_charge_int", "derive_adduct_from_name", "clean_compound_name",
                "correct_charge", "add_losses", "no_such_filter" } }
    \cup
    { [type |-> "tuple", name |-> n, args |-> "kwargs"] :
        n \in { "select_by_mz", "no_such_filter" } }
    \cup
    { [type |-> "other", name |-> "none", args |-> "none"] }

NoScore == [num |-> 0, den |-> 1]
NoResult == [spc |-> "none", score |-> NoScore, n_matches |-> 0]

NoSpec == [type |-> "none", name |-> "none", args |-> "none"]

ScorerIdle ==
    /\ spectrum1 = <<>>
    /\ spectrum2 = <<>>
    /\ tolerance = 0
    /\ matching_pairs = <<>>
    /\ used_matches = {}
    /\ score = NoScore
    /\ n_matches = 0
    /\ spc = "idle"
    /\ previous = NoResult

Init ==
    /\ \E processing_pipeline \in DOMAIN PREDEFINED_PIPELINES :
        /\ filters = Construct(PREDEFINED_PIPELINES[processing_pipeline])
        /\ added = SeqToBag(PREDEFINED_PIPELINES[processing_pipeline])
    /\ outcome = "self"
    /\ ncalls = 0
    /\ last_spec = NoSpec
    /\ pc = "idle"
    /\ idx = 1
    /\ spectrum = "none"
    /\ invoked = <<>>
    /\ returned = <<>>
    /\ result = "none"
    /\ ScorerIdle

add_filter ==
    /\ pc = "idle"
    /\ ncalls < MaxAdds
    /\ \E filter_spec \in FilterSpecs :
        LET r == AddFilter(filters, filter_spec)
        IN  /\ filters' = r.filters
            /\ outcome' = r.outcome
            /\ last_spec' = filter_spec
            /\ added' = IF filter_spec.type = "str" /\ filter_spec.name \in FILTER_FUNCTIONS
                        THEN added (+) SetToBag({filter_spec.name})
                        ELSE added
    /\ ncalls' = ncalls + 1
    /\ UNCHANGED <<pc, idx, spectrum, invoked, returned, result>>
    /\ UNCHANGED svars

BreakNever(s) == FALSE

\* "if spectrum is None: break"
Break(s) == s = "None"

\* process_spectrum is entered with a spectrum.
process_spectrum ==
    /\ pc = "idle"
    /\ pc' = "loop"
    /\ idx' = 1
    /\ spectrum' = "Spectrum"
    /\ invoked' = <<>>
    /\ returned' = <<>>
    /\ result' = "none"
    /\ UNCHANGED <<filters, added, outcome, ncalls, last_spec>>
    /\ UNCHANGED svars

\* One iteration of "for filter_func in self.filters": the filter is an opaque
\* function that returns a spectrum or None.
loop_iteration ==
    /\ pc = "loop"
    /\ idx <= Len(filters)
    /\ \E out \in {"Spectrum", "None"} :
        /\ spectrum' = out
        /\ invoked' = Append(invoked, idx)
        /\ returned' = Append(returned, out)
        /\ pc' = IF Break(out) THEN "return" ELSE "loop"
    /\ idx' = idx + 1
    /\ UNCHANGED <<filters, added, outcome, ncalls, last_spec, result>>
    /\ UNCHANGED svars

\* The list is exhausted.
loop_exit ==
    /\ pc = "loop"
    /\ idx > Len(filters)
    /\ pc' = "return"
    /\ UNCHANGED <<filters, added, outcome, ncalls, last_spec, idx, spectrum, invoked, returned, result>>
    /\ UNCHANGED svars

\* "return spectrum"
process_return ==
    /\ pc = "return"
    /\ result' = spectrum
    /\ pc' = "idle"
    /\ UNCHANGED <<filters, added, outcome, ncalls, last_spec, idx, spectrum, invoked, returned>>
    /\ UNCHANGED svars

Next ==
    \/ add_filter
    \/ process_spectrum
    \/ loop_iteration
    \/ loop_exit
    \/ process_return

Spec == Init /\ [][Next]_vars

(***************************************************************************)
(* Properties of the pipeline.                                             *)
(***************************************************************************)
OnlyFunctions == \A p \in 1..Len(filters) : filters[p].kind = "function"

IsFirstOccurrence(p) == \A q \in 1..(p - 1) : ALL_FILTERS[q] # ALL_FILTERS[p]

RECURSIVE Repeat(_, _)
Repeat(f, n) == IF n = 0 THEN <<>> ELSE <<f>> \o Repeat(f, n - 1)

\* The list a bag of names stands for: the names in the order of their first
\* canonical position, each as often as the bag holds it.
RECURSIVE CanonicalList(_, _)
CanonicalList(bag, p) ==
    IF p > Len(ALL_FILTERS) THEN <<>>
    ELSE (IF IsFirstOccurrence(p)
          THEN Repeat(Func(ALL_FILTERS[p]), CopiesIn(ALL_FILTERS[p], bag))
          ELSE <<>>) \o CanonicalList(bag, p + 1)

\* C1: when only bare names were added, the filter list is determined by the
\* multiset of the names added, whatever the order of the add_filter calls: it is
\* that multiset listed by canonical position.
C1_OrderIndependent == OnlyFunctions => filters = CanonicalList(added, 1)

\* Names were added after construction on both sides of the preset's filters,
\* which the two orders of the calls reach alike.
C1_Witness ==
    /\ OnlyFunctions
    /\ ncalls = 2
    /\ outcome = "self"
    /\ CopiesIn("add_losses", added) = 1
    /\ CopiesIn("make_charge_int", added) = 2
    /\ filters = CanonicalList(added, 1)

\* C2: the filters are invoked once each in list order, a filter that returns None
\* is the last one invoked, and process_spectrum then returns None.
C2_ShortCircuit ==
    /\ Len(returned) = Len(invoked)
    /\ \A k \in 1..Len(invoked) : invoked[k] = k
    /\ \A k \in 1..Len(returned) :
        returned[k] = "None" => (k = Len(invoked) /\ pc # "loop")
    /\ (pc = "idle" /\ result # "none" /\ \E k \in 1..Len(returned) : returned[k] = "None")
        => result = "None"

\* process_spectrum returned None after the third filter of a longer list rejected.
C2_Witness ==
    /\ pc = "idle"
    /\ result = "None"
    /\ Len(invoked) = 3
    /\ returned = <<"Spectrum", "Spectrum", "None">>
    /\ Len(filters) > 3

AtCanonicalPosition(p) ==
    /\ \A q \in 1..(p - 1) : InList(filters[q]) => Index(filters[q]) <= Index(Func(filters[p].name))
    /\ \A q \in (p + 1)..Len(filters) : InList(filters[q]) => Index(Func(filters[p].name)) <= Index(filters[q])

\* C3: add_filter with a (name, arguments) pair of a known name returns the
\* pipeline, which then holds the bound filter at the name's canonical position.
C3_TupleAddSucceeds ==
    (last_spec.type = "tuple" /\ last_spec.name \in FILTER_FUNCTIONS) =>
        /\ outcome = "self"
        /\ \E p \in 1..Len(filters) :
            /\ filters[p] = Lambda(last_spec.name, last_spec.args)
            /\ AtCanonicalPosition(p)

\* C4: no filter occurs more than once in the filter list.
C4_NoDuplicates ==
    \A p, q \in 1..Len(filters) : p # q => filters[p] # filters[q]

\* The position of the last listing of a function in ALL_FILTERS.
IndexLast(f) ==
    CHOOSE p \in 1..Len(ALL_FILTERS) :
        /\ ALL_FILTERS[p] = f.name
        /\ \A q \in 1..Len(ALL_FILTERS) : ALL_FILTERS[q] = f.name => q <= p

DuplicatedNames ==
    { ALL_FILTERS[p] : p \in { r \in 1..Len(ALL_FILTERS) : ~IsFirstOccurrence(r) } }

\* C9: a filter whose name is listed twice in ALL_FILTERS stands after every
\* other filter of the list that precedes the later listing.
C9_LaterOccurrence ==
    \A p, q \in 1..Len(filters) :
        ( /\ InList(filters[p]) /\ InList(filters[q])
          /\ filters[q].name \in DuplicatedNames
          /\ filters[p].name # filters[q].name
          /\ Index(filters[p]) < IndexLast(filters[q]) ) => p < q

\* C10: an add_filter call that raises leaves the filter list as it was.
C10_FailedAddIsAtomic ==
    [][(ncalls' # ncalls /\ outcome' # "self") => filters' = filters]_vars

(***************************************************************************)
(* CosineHungarian.py.  A spectrum is the array spec1/spec2: a sequence of *)
(* rows <<mz, intensity>>.  Intensities are counted in units of 1/One, so   *)
(* products of two intensities, costs and sums of squares are in units of  *)
(* 1/(One*One).                                                            *)
(***************************************************************************)
One == 2

Abs(x) == IF x < 0 THEN 0 - x ELSE x

Max2(a, b) == IF a >= b THEN a ELSE b

RECURSIVE MaxIntensity(_)
MaxIntensity(spec) ==
    IF Len(spec) = 1 THEN spec[1][2]
    ELSE Max2(spec[1][2], MaxIntensity(Tail(spec)))

\* get_peaks_arrays: max() of an empty column raises ValueError, an intensity above
\* 1 fails the assertion; "none" when the arrays are returned.
get_peaks_arrays(spec1, spec2) ==
    IF spec1 = <<>> THEN "ValueError"
    ELSE IF MaxIntensity(spec1) > One THEN "AssertionError"
    ELSE IF spec2 = <<>> THEN "ValueError"
    ELSE IF MaxIntensity(spec2) > One THEN "AssertionError"
    ELSE "none"

WithinOneSided(mz1, mz2, tol, shift) == mz2 - mz1 + shift <= tol

\* numpy.abs(spec2[:, 0] - spec1[idx, 0] + shift) <= tolerance
Within(mz1, mz2, tol, shift) == Abs(mz2 - mz1 + shift) <= tol

\* The inner loop "for match in matches" from row m of spec2 on.
RECURSIVE PairsOfPeak(_, _, _, _, _, _)
PairsOfPeak(spec1, spec2, tol, shift, i, m) ==
    IF m > Len(spec2) THEN <<>>
    ELSE (IF Within(spec1[i][1], spec2[m][1], tol, shift)
          THEN << <<i, m, spec1[i][2] * spec2[m][2]>> >>
          ELSE <<>>) \o PairsOfPeak(spec1, spec2, tol, shift, i, m + 1)

RECURSIVE PairsFrom(_, _, _, _, _)
PairsFrom(spec1, spec2, tol, shift, i) ==
    IF i > Len(spec1) THEN <<>>
    ELSE PairsOfPeak(spec1, spec2, tol, shift, i, 1) \o PairsFrom(spec1, spec2, tol, shift, i + 1)

find_pairs_numba(spec1, spec2, tol, shift) == PairsFrom(spec1, spec2, tol, shift, 1)

\* sorted(..., key=lambda x: x[2], reverse=True): stable, by decreasing weight.
RECURSIVE InsertByWeight(_, _)
InsertByWeight(sorted, x) ==
    IF sorted = <<>> THEN <<x>>
    ELSE IF x[3] > Head(sorted)[3] THEN <<x>> \o sorted
    ELSE <<Head(sorted)>> \o InsertByWeight(Tail(sorted), x)

RECURSIVE SortByWeight(_)
SortByWeight(pairs) ==
    IF pairs = <<>> THEN <<>>
    ELSE InsertByWeight(SortByWeight(SubSeq(pairs, 1, Len(pairs) - 1)), pairs[Len(pairs)])

get_matching_pairs(spec1, spec2, tol) == SortByWeight(find_pairs_numba(spec1, spec2, tol, 0))

\* list({...}) of a set of small integers: its elements in increasing order.
RECURSIVE SortedSeq(_)
SortedSeq(S) ==
    IF S = {} THEN <<>>
    ELSE LET least == CHOOSE x \in S : \A y \in S : x <= y
         IN  <<least>> \o SortedSeq(S \ {least})

List1(pairs) == SortedSeq({ pairs[k][1] : k \in 1..Len(pairs) })
List2(pairs) == SortedSeq({ pairs[k][2] : k \in 1..Len(pairs) })

\* numpy.ones(matrix_size), then matrix[...] = 1 - match[2] for every pair.
CostMatrix(pairs) ==
    LET list1 == List1(pairs)
        list2 == List2(pairs)
    IN  [ cell \in (1..Len(list1)) \X (1..Len(list2)) |->
            IF \E k \in 1..Len(pairs) :
                   pairs[k][1] = list1[cell[1]] /\ pairs[k][2] = list2[cell[2]]
            THEN LET k == CHOOSE k \in 1..Len(pairs) :
                              pairs[k][1] = list1[cell[1]] /\ pairs[k][2] = list2[cell[2]]
                 IN  One * One - pairs[k][3]
            ELSE One * One ]

RECURSIVE SumCost(_, _)
SumCost(matrix, cells) ==
    IF cells = {} THEN 0
    ELSE LET cell == CHOOSE c \in cells : TRUE
         IN  matrix[cell] + SumCost(matrix, cells \ {cell})

\* The complete assignments of an n x m matrix: every row of the smaller side is
\* given a column (row) of its own.
Assignments(n, m) ==
    IF n <= m
    THEN { { <<r, f[r]>> : r \in 1..n } :
             f \in { g \in [1..n -> 1..m] : \A a, b \in 1..n : a # b => g[a] # g[b] } }
    ELSE { { <<f[c], c>> : c \in 1..m } :
             f \in { g \in [1..m -> 1..n] : \A a, b \in 1..m : a # b => g[a] # g[b] } }

\* Cheapest cell first, then the cheapest cell of the rows and columns left.
RECURSIVE GreedyCells(_, _, _)
GreedyCells(matrix, rows, cols) ==
    IF rows = {} \/ cols = {} THEN {}
    ELSE LET cell == CHOOSE c \in rows \X cols : \A d \in rows \X cols : matrix[c] <= matrix[d]
         IN  {cell} \cup GreedyCells(matrix, rows \ {cell[1]}, cols \ {cell[2]})

greedy_assignment(matrix, n, m) == { GreedyCells(matrix, 1..n, 1..m) }

\* scipy.optimize.linear_sum_assignment(matrix): a complete assignment of least
\* total cost; which one among several of least cost is the solver's choice.
linear_sum_assignment(matrix, n, m) ==
    { a \in Assignments(n, m) :
        \A b \in Assignments(n, m) : SumCost(matrix, a) <= SumCost(matrix, b) }

RECURSIVE SumSquares(_)
SumSquares(spec) ==
    IF spec = <<>> THEN 0
    ELSE spec[1][2] * spec[1][2] + SumSquares(Tail(spec))

\* calc_score: the results it can return, one for every assignment the solver
\* may choose.  score = num/den; a zero den is the float division 0.0/0.0 = nan.
calc_score(spec1, spec2, pairs) ==
    IF Len(pairs) > 0
    THEN LET list1 == List1(pairs)
             list2 == List2(pairs)
             matrix == CostMatrix(pairs)
         IN  { [ score |-> [ num |-> Cardinality(a) * One * One - SumCost(matrix, a),
                             den |-> Max2(SumSquares(spec1), SumSquares(spec2)) ],
                 used_matches |-> { <<list1[c[1]], list2[c[2]]>> : c \in a },
                 n_matches |-> Cardinality(a) ] :
               a \in linear_sum_assignment(matrix, Len(list1), Len(list2)) }
    ELSE { [ score |-> NoScore, used_matches |-> {}, n_matches |-> 0 ] }

(***************************************************************************)
(* The scorer's specifications.                                            *)
(***************************************************************************)
\* Peak arrays of at most n rows: positions strictly increasing in 0..maxmz,
\* intensities drawn from levels.
Spectra(n, maxmz, levels) ==
    UNION { { s \in [1..k -> (0..maxmz) \X levels] :
                \A a \in 1..(k - 1) : s[a][1] < s[a + 1][1] } : k \in 0..n }

Intensities == 0..One

PipelineIdle ==
    /\ filters = Construct(PREDEFINED_PIPELINES["default"])
    /\ added = SeqToBag(PREDEFINED_PIPELINES["default"])
    /\ outcome = "self"
    /\ ncalls = 0
    /\ last_spec = NoSpec
    /\ pc = "idle"
    /\ idx = 1
    /\ spectrum = "none"
    /\ invoked = <<>>
    /\ returned = <<>>
    /\ result = "none"

ScoreInitWith(spectra) ==
    /\ PipelineIdle
    /\ spectrum1 \in spectra
    /\ spectrum2 \in spectra
    /\ tolerance \in 0..MaxTol
    /\ matching_pairs = <<>>
    /\ used_matches = {}
    /\ score = NoScore
    /\ n_matches = 0
    /\ spc = "ready"
    /\ previous = NoResult

ScoreInit == ScoreInitWith(Spectra(MaxPeaks, MaxMz, Intensities))

FlatScoreInit == ScoreInitWith(Spectra(MaxFlatPeaks, MaxFlatMz, {One}))

\* CosineHungarian.__call__(spectrum1, spectrum2) raises in get_peaks_arrays.
call_raises ==
    /\ spc = "ready"
    /\ get_peaks_arrays(spectrum1, spectrum2) # "none"
    /\ spc' = "raised"
    /\ UNCHANGED <<spectrum1, spectrum2, tolerance, matching_pairs, used_matches, score, n_matches, previous>>
    /\ UNCHANGED pvars

\* CosineHungarian.__call__(spectrum1, spectrum2) returns (score, len(used_matches)).
call_returns ==
    /\ spc = "ready"
    /\ get_peaks_arrays(spectrum1, spectrum2) = "none"
    /\ LET pairs == get_matching_pairs(spectrum1, spectrum2, tolerance)
       IN  /\ matching_pairs' = pairs
           /\ \E r \in calc_score(spectrum1, spectrum2, pairs) :
                /\ score' = r.score
                /\ used_matches' = r.used_matches
                /\ n_matches' = r.n_matches
    /\ spc' = "returned"
    /\ UNCHANGED <<spectrum1, spectrum2, tolerance, previous>>
    /\ UNCHANGED pvars

\* The caller keeps the result and calls again with the two spectra exchanged.
call_swapped ==
    /\ spc \in {"returned", "raised"}
    /\ previous = NoResult
    /\ previous' = [spc |-> spc, score |-> score, n_matches |-> n_matches]
    /\ spectrum1' = spectrum2
    /\ spectrum2' = spectrum1
    /\ matching_pairs' = <<>>
    /\ used_matches' = {}
    /\ score' = NoScore
    /\ n_matches' = 0
    /\ spc' = "ready"
    /\ UNCHANGED tolerance
    /\ UNCHANGED pvars

ScoreNext ==
    \/ call_raises
    \/ call_returns
    \/ call_swapped

ScoreSpec == ScoreInit /\ [][ScoreNext]_vars

FlatScoreSpec == FlatScoreInit /\ [][ScoreNext]_vars

(***************************************************************************)
(* Properties of the scorer.                                               *)
(***************************************************************************)
\* The candidate pairs of the last call, as a set of <<index1, index2, weight>>.
Candidates == { matching_pairs[k] : k \in 1..Len(matching_pairs) }

OneToOne(T) == \A x, y \in T : x # y => (x[1] # y[1] /\ x[2] # y[2])

RECURSIVE TotalWeight(_)
TotalWeight(T) ==
    IF T = {} THEN 0
    ELSE LET x == CHOOSE x \in T : TRUE
         IN  x[3] + TotalWeight(T \ {x})

OneToOneSubsets == { T \in SUBSET Candidates : OneToOne(T) }

\* C5: the gain the scorer computes, the numerator of the score, is the greatest
\* total weight of a one-to-one set of candidate pairs.
C5_OptimalGain ==
    spc = "returned" =>
        /\ \E T \in OneToOneSubsets : TotalWeight(T) = score.num
        /\ \A T \in OneToOneSubsets : TotalWeight(T) <= score.num

\* A highest-weight-first pairing: a one-to-one set that holds a pair of the
\* greatest weight and cannot be extended.
HighestFirst(T) ==
    /\ \E x \in T : \A y \in Candidates : y[3] <= x[3]
    /\ \A y \in Candidates \ T : ~OneToOne(T \cup {y})

\* The scorer returned a gain that some highest-weight-first pairing misses.
C5_Witness ==
    /\ spc = "returned"
    /\ \E T \in OneToOneSubsets : HighestFirst(T) /\ TotalWeight(T) < score.num

\* C6: every pair the scorer counts is a candidate pair, and the number of matches
\* is at most the size of the largest one-to-one set of candidate pairs.
C6_MatchesAreCandidates ==
    spc = "returned" =>
        /\ used_matches \subseteq { <<x[1], x[2]>> : x \in Candidates }
        /\ \E T \in OneToOneSubsets : n_matches <= Cardinality(T)

\* C7: the score of two non-empty spectra with intensities in [0, 1] is a number
\* between 0 and 1.
C7_BoundedScore ==
    spc = "returned" =>
        /\ score.den > 0
        /\ 0 <= score.num
        /\ score.num <= score.den

SameScore(a, b) ==
    /\ (a.den = 0) = (b.den = 0)
    /\ a.num * b.den = b.num * a.den

\* C8: the call with the two spectra exchanged ends like the call before it, with
\* the same score and the same number of matches.
C8_Symmetric ==
    (previous # NoResult /\ spc \in {"returned", "raised"}) =>
        /\ previous.spc = spc
        /\ SameScore(previous.score, score)
        /\ previous.n_matches = n_matches

\* Both calls returned a positive score for two spectra of different lengths.
C8_Witness ==
    /\ previous.spc = "returned"
    /\ spc = "returned"
    /\ Len(spectrum1) # Len(spectrum2)
    /\ score.num > 0
    /\ n_matches >= 1
    /\ SameScore(previous.score, score)
====
